---- MODULE Spec2Model ----
(***************************************************************************)
(* Model of we_panic_utils/nn/processing.py: the FrameProcessor, its two   *)
(* generators (frame_generator, testing_generator), the sequence           *)
(* transforms and the threadsafe_iterator wrapper.                         *)
(*                                                                         *)
(* Python values that the constructor type-checks are records              *)
(* [t |-> type name, v |-> whole number].  A frame is the record           *)
(* [idx |-> index of the frame file, hist |-> transforms applied so far].  *)
(***************************************************************************)
EXTENDS Integers, Sequences, FiniteSets, TLC

\* ---------------------------------------------------------------- bounds
MaxPaths == 2
MaxBatch == 2
MaxFrames == 2
MaxPulls == 3
MaxThreads == 2
MaxDim == 2
MaxSeqLen == 2
MaxFlips == 3

\* ------------------------------------------------------ program constants
InputHeight == 224
InputWidth == 224
\* the axis arguments frame_generator hands to sequence_flip_axis
VerticalFlipAxis == 1
HorizontalFlipAxis == 2

VARIABLES
    args,       \* the keyword arguments handed to FrameProcessor(...)
    proc,       \* "none" | "ok" | "AssertionError": outcome of __init__
    fs,         \* the file system: path -> set of directory entries
    mapping,    \* paths2labels: its keys in iteration order
    gen,        \* the generator object wrapped by threadsafe_iterator
    lock,       \* threadsafe_iterator.lock: 0 (free) or the holding thread
    threads,    \* the consumer threads that exist
    pc,         \* per thread: position inside threadsafe_iterator.__next__
    res,        \* per thread: what its last pull returned or raised
    pulls,      \* number of pulls started so far
    delivered,  \* the pulls that returned a batch: <<thread, yield number>>
    trail,      \* pixel sequences: the one given, then the result of each flip
    axes,       \* the axes sequence_flip_axis was called with, in order
    gen2,       \* a second generator instance of the same processor
    lock2,      \* the lock of the second instance's threadsafe_iterator
    threads2,   \* the consumer threads of the second instance
    pc2,        \* per such thread: position inside __next__
    res2,       \* per such thread: what its last pull returned or raised
    pulls2      \* number of pulls started on the second instance

genVars == <<args, proc, fs, mapping, gen, lock, threads, pc, res, pulls, delivered>>
flipVars == <<trail, axes>>
secondVars == <<gen2, lock2, threads2, pc2, res2, pulls2>>
vars == <<genVars, flipVars, secondVars>>

Paths == 1..MaxPaths
AllThreads == 1..MaxThreads

\* ----------------------------------------------------------- python values
PyInt(n) == [t |-> "int", v |-> n]
PyFloat(n) == [t |-> "float", v |-> n]
PyBool(b) == [t |-> "bool", v |-> IF b THEN 1 ELSE 0]

\* truth value of `if x:` for the values used here
Truthy(x) == x.v # 0

\* ------------------------------------------------------------ file system
\* A directory entry is a whole number: i >= 0 is the file frame<i>.png,
\* -1 is a file that does not follow the naming convention.
JunkEntry == 0 - 1

\* listing-driven: the frame files that exist, in index order
RECURSIVE SortedFrames(_)
SortedFrames(S) ==
    IF S = {} THEN <<>>
    ELSE LET m == CHOOSE x \in S : \A z \in S : x <= z
         IN  <<m>> \o SortedFrames(S \ {m})

get_sample_frames_listed(dir) == SortedFrames({e \in dir : e >= 0})

\* os.listdir(sample); len(contents); frame%d.png for i in range(max_frame)
get_sample_frames(dir) ==
    [i \in 1..Cardinality(dir) |-> i - 1]

\* load_img raises (an IOError) on the first file name that does not exist
MissingFrames(dir, filenames) ==
    {i \in 1..Len(filenames) : filenames[i] \notin dir}

process_img(frame) == [idx |-> frame, hist |-> <<>>]

build_image_sequence(filenames) ==
    [i \in 1..Len(filenames) |-> process_img(filenames[i])]

\* the label the mapping holds for a path: (heart rate, respiration rate)
LabelOf(p) == <<60 + p, 10 + p>>

\* ------------------------------------------------------- the random source
\* A pull reads its random numbers from a stream of unit draws u in {0, 1}:
\* np.random.uniform(lo, hi) is lo for u = 0 and hi for u = 1, and
\* np.random.random_sample() > 0.5 is u = 1.
Bits == {0, 1}

RndAt(rnd, k) == rnd[((k - 1) % Len(rnd)) + 1]

Uniform(lo, hi, u) == lo + u * (hi - lo)

\* ------------------------------------------------------------- transforms
NoAxis == 0 - 1

Matrix(kind, a, b) == [kind |-> kind, a |-> a, b |-> b]

\* The events of one sample's augmentation, in program order: a call of the
\* random source (with the unit values it returned) or a transform applied to
\* frame n.
DrawEv(kind, u) == [ev |-> "draw", kind |-> kind, n |-> 0, u |-> u]
ApplyEv(kind, i) == [ev |-> "apply", kind |-> kind, n |-> i, u |-> <<>>]

\* keras apply_transform(x, transform_matrix, channel_axis, fill_mode, cval)
apply_transform(x, M, channel_axis) ==
    [x EXCEPT !.hist = Append(@, [m |-> M, channel_axis |-> channel_axis])]

\* [apply_transform(x, transform_matrix, ...) for x in seq]
ApplyAll(seq, M, channel_axis) ==
    [i \in 1..Len(seq) |-> apply_transform(seq[i], M, channel_axis)]

ApplyLog(seq, kind) == [i \in 1..Len(seq) |-> ApplyEv(kind, i)]

\* a fresh angle for every frame
random_sequence_rotation_per_frame(seq, rotation_range, rnd, pos) ==
    LET theta(i) == Uniform(0 - rotation_range, rotation_range, RndAt(rnd, pos + i - 1))
    IN  [seq |-> [i \in 1..Len(seq) |->
                     apply_transform(seq[i], Matrix("rotation", theta(i), 0), 2)],
         pos |-> pos + Len(seq),
         log |-> [n \in 1..(2 * Len(seq)) |->
                     IF n % 2 = 1
                     THEN DrawEv("rotation", <<RndAt(rnd, pos + (n - 1) \div 2)>>)
                     ELSE ApplyEv("rotation", n \div 2)]]

random_sequence_rotation(seq, rotation_range, rnd, pos) ==
    LET theta == Uniform(0 - rotation_range, rotation_range, RndAt(rnd, pos))
        M == Matrix("rotation", theta, 0)
    IN  [seq |-> ApplyAll(seq, M, 2),
         pos |-> pos + 1,
         log |-> <<DrawEv("rotation", <<RndAt(rnd, pos)>>)>> \o ApplyLog(seq, "rotation")]

random_sequence_shift(seq, height_shift_range, width_shift_range, rnd, pos) ==
    LET tx == Uniform(0 - height_shift_range, height_shift_range, RndAt(rnd, pos))
                  * InputHeight
        ty == Uniform(0 - width_shift_range, width_shift_range, RndAt(rnd, pos + 1))
                  * InputWidth
        M == Matrix("shift", tx, ty)
    IN  [seq |-> ApplyAll(seq, M, 2),
         pos |-> pos + 2,
         log |-> <<DrawEv("shift", <<RndAt(rnd, pos)>>),
                   DrawEv("shift", <<RndAt(rnd, pos + 1)>>)>> \o ApplyLog(seq, "shift")]

random_sequence_shear(seq, shear_range, rnd, pos) ==
    LET shear == Uniform(0 - shear_range, shear_range, RndAt(rnd, pos))
        M == Matrix("shear", shear, 0)
    IN  [seq |-> ApplyAll(seq, M, 2),
         pos |-> pos + 1,
         log |-> <<DrawEv("shear", <<RndAt(rnd, pos)>>)>> \o ApplyLog(seq, "shear")]

\* channel_axis defaults to 1 in this one
random_sequence_zoom(seq, zoom_range, rnd, pos) ==
    LET zlower == 1 - zoom_range
        zupper == 1 + zoom_range
        fixed == zlower = 1 /\ zupper = 1
        zx == IF fixed THEN 1 ELSE Uniform(zlower, zupper, RndAt(rnd, pos))
        zy == IF fixed THEN 1 ELSE Uniform(zlower, zupper, RndAt(rnd, pos + 1))
        M == Matrix("zoom", zx, zy)
    IN  [seq |-> ApplyAll(seq, M, 1),
         pos |-> IF fixed THEN pos ELSE pos + 2,
         log |-> (IF fixed THEN <<>>
                  ELSE <<DrawEv("zoom", <<RndAt(rnd, pos), RndAt(rnd, pos + 1)>>)>>)
                     \o ApplyLog(seq, "zoom")]

\* on frame records: remember which axis was reversed
sequence_flip_axis(seq, axis) ==
    [i \in 1..Len(seq) |->
        [seq[i] EXCEPT !.hist =
            Append(@, [m |-> Matrix("flip", axis, 0), channel_axis |-> NoAxis])]]

\* ------------------------------------------------- flips on pixel arrays
\* A numpy array of rank 3: its shape and its elements by 0-based index.
IndexSet(shape) ==
    {<<i, j, k>> : i \in 0..(shape[1] - 1), j \in 0..(shape[2] - 1),
                   k \in 0..(shape[3] - 1)}

SwapAt(t, a, b) ==
    [n \in 1..3 |-> IF n = a + 1 THEN t[b + 1] ELSE IF n = b + 1 THEN t[a + 1] ELSE t[n]]

\* x.swapaxes(a, b)
swapaxes(x, a, b) ==
    LET shape == SwapAt(x.shape, a, b)
    IN  [shape |-> shape,
         at |-> [idx \in IndexSet(shape) |-> x.at[SwapAt(idx, a, b)]]]

\* x[::-1, ...]
reverse_first(x) ==
    [shape |-> x.shape,
     at |-> [idx \in IndexSet(x.shape) |->
                x.at[<<x.shape[1] - 1 - idx[1], idx[2], idx[3]>>]]]

\* the axis is never swapped back
flip_pixels_no_swap_back(seq, axis) ==
    [i \in 1..Len(seq) |-> reverse_first(swapaxes(seq[i], axis, 0))]

\* sequence_flip_axis on pixel arrays: swap the axis to the front, reverse
\* the front axis, swap back
flip_pixels(seq, axis) ==
    [i \in 1..Len(seq) |-> swapaxes(reverse_first(swapaxes(seq[i], axis, 0)), 0, axis)]

\* A frame whose every element names its own position (and its frame), so
\* that any movement of elements shows.
CodedFrame(shape, k) ==
    [shape |-> shape,
     at |-> [idx \in IndexSet(shape) |->
                k * 1000 + idx[1] * 100 + idx[2] * 10 + idx[3]]]

\* ---------------------------------------------------------- FrameProcessor
\* The assertions of __init__, in order.
ArgsAccepted(a) ==
    /\ a.rotation_range.t = "int"
    /\ a.width_shift_range.t = "float"
    /\ a.width_shift_range.v <= 1 /\ a.width_shift_range.v >= 0
    /\ a.height_shift_range.t = "float"
    /\ a.height_shift_range.v <= 1 /\ a.height_shift_range.v >= 0
    /\ a.zoom_range.t = "float"
    /\ a.horizontal_flip.t = "bool"
    /\ a.vertical_flip.t = "bool"

\* One step of the augmentation of a sample: st is the record
\* [seq, pos, log, coin, err] of the loop body's local state.
Merge(st, r) ==
    [st EXCEPT !.seq = r.seq, !.pos = r.pos, !.log = st.log \o r.log]

StepRotation(a, st, rnd) ==
    IF a.rotation_range.v > 0
    THEN Merge(st, random_sequence_rotation(st.seq, a.rotation_range.v, rnd, st.pos))
    ELSE st

\* random_sequence_shift(sequence, self.width_shift_range, self.height_shift_range)
StepShift(a, st, rnd) ==
    IF a.width_shift_range.v > 0 \/ a.height_shift_range.v > 0
    THEN Merge(st, random_sequence_shift(st.seq, a.width_shift_range.v,
                                         a.height_shift_range.v, rnd, st.pos))
    ELSE st

StepShear(a, st, rnd) ==
    IF a.shear_range.v > 0
    THEN Merge(st, random_sequence_shear(st.seq, a.shear_range.v, rnd, st.pos))
    ELSE st

StepZoom(a, st, rnd) ==
    IF a.zoom_range.v > 0
    THEN Merge(st, random_sequence_zoom(st.seq, a.zoom_range.v, rnd, st.pos))
    ELSE st

\* coin_flip = np.random.random_sample() > 0.5
StepVerticalFlip(a, st, rnd) ==
    IF Truthy(a.vertical_flip)
    THEN LET coin == RndAt(rnd, st.pos) = 1
             drawn == [st EXCEPT !.pos = @ + 1,
                                 !.log = Append(@, DrawEv("vertical_flip", <<RndAt(rnd, st.pos)>>)),
                                 !.coin = IF coin THEN "true" ELSE "false"]
         IN  IF coin
             THEN [drawn EXCEPT !.seq = sequence_flip_axis(@, VerticalFlipAxis),
                                !.log = @ \o ApplyLog(st.seq, "vertical_flip")]
             ELSE drawn
    ELSE st

\* coin_flip - np.random.random_sample() > 0.5 : the local coin_flip is read
\* (unbound when the vertical branch never assigned it), a number is drawn and
\* the comparison is dropped; coin_flip keeps its value.
StepHorizontalFlip(a, st, rnd) ==
    IF Truthy(a.horizontal_flip)
    THEN IF st.coin = "unbound"
         THEN [st EXCEPT !.err = "NameError"]
         ELSE LET drawn == [st EXCEPT !.pos = @ + 1,
                                      !.log = Append(@, DrawEv("horizontal_flip",
                                                              <<RndAt(rnd, st.pos)>>))]
              IN  IF st.coin = "true"
                  THEN [drawn EXCEPT !.seq = sequence_flip_axis(@, HorizontalFlipAxis),
                                     !.log = @ \o ApplyLog(st.seq, "horizontal_flip")]
                  ELSE drawn
    ELSE st

\* The body of `for pth in selected_paths` up to X.append(sequence).
AugmentSample(a, dir, rnd, pos, coin) ==
    LET frames == get_sample_frames(dir)
        s0 == [seq |-> build_image_sequence(frames), pos |-> pos, log |-> <<>>,
               coin |-> coin, err |-> "none"]
        s1 == StepRotation(a, s0, rnd)
        s2 == StepShift(a, s1, rnd)
        s3 == StepShear(a, s2, rnd)
        s4 == StepZoom(a, s3, rnd)
        s5 == StepVerticalFlip(a, s4, rnd)
        s6 == StepHorizontalFlip(a, s5, rnd)
    IN  IF MissingFrames(dir, frames) # {}
        THEN [s0 EXCEPT !.seq = <<>>, !.err = "IOError"]
        ELSE s6

Sample(p, st) == [path |-> p, frames |-> st.seq, log |-> st.log]

\* The for loop over selected_paths: acc is [X, pos, coin, err, at].
RECURSIVE AugmentBatch(_, _, _, _, _, _)
AugmentBatch(a, files, sel, rnd, k, acc) ==
    IF k > Len(sel) \/ acc.err # "none"
    THEN acc
    ELSE LET st == AugmentSample(a, files[sel[k]], rnd, acc.pos, acc.coin)
         IN  AugmentBatch(a, files, sel, rnd, k + 1,
                 [X |-> IF st.err = "none" THEN Append(acc.X, Sample(sel[k], st))
                                             ELSE acc.X,
                  pos |-> st.pos, coin |-> st.coin, err |-> st.err,
                  at |-> IF st.err = "none" THEN 0 ELSE sel[k]])

\* How many unit draws the loop consumes for a selection: the number of
\* draws does not depend on the values drawn.
DrawsOf(a, files, sel, coin) ==
    AugmentBatch(a, files, sel, <<0>>, 1,
                 [X |-> <<>>, pos |-> 1, coin |-> coin, err |-> "none", at |-> 0]).pos - 1

\* sampling with replacement: any positions
RandomSamplesWithReplacement(keys, k) ==
    {[i \in 1..k |-> keys[f[i]]] : f \in [1..k -> 1..Len(keys)]}

\* random.sample(sequence_paths, batch_size): the ordered selections of
\* batch_size distinct positions; ValueError when the sample is larger than
\* the population.
RandomSamples(keys, k) ==
    {[i \in 1..k |-> keys[f[i]]] :
        f \in {g \in [1..k -> 1..Len(keys)] :
                  \A i, j \in 1..k : i # j => g[i] # g[j]}}

\* ------------------------------------------------------------ the inputs
Args(rot, wsr, hsr, shear, zoom, hflip, vflip, bs) ==
    [rotation_range |-> rot, width_shift_range |-> wsr, height_shift_range |-> hsr,
     shear_range |-> shear, zoom_range |-> zoom, horizontal_flip |-> hflip,
     vertical_flip |-> vflip, batch_size |-> bs]

OnOffFloat == {PyFloat(0), PyFloat(1)}
Flags == {PyBool(FALSE), PyBool(TRUE)}

\* Every on/off combination of the transforms, for batches of one sample.
AugArgs ==
    {Args(rot, wsr, hsr, shear, zoom, hflip, vflip, 1) :
        rot \in {PyInt(0), PyInt(1)}, wsr \in OnOffFloat, hsr \in OnOffFloat,
        shear \in OnOffFloat, zoom \in OnOffFloat, hflip \in Flags, vflip \in Flags}

\* Every batch size, with the two flips on or off and no affine transform.
GenArgs ==
    {Args(PyInt(0), PyFloat(0), PyFloat(0), PyFloat(0), PyFloat(0), hflip, vflip, bs) :
        hflip \in Flags, vflip \in Flags, bs \in 1..MaxBatch}

\* No augmentation: the configurations the concurrent consumers are run with.
ThreadArgs ==
    {Args(PyInt(0), PyFloat(0), PyFloat(0), PyFloat(0), PyFloat(0), PyBool(FALSE),
          PyBool(FALSE), bs) : bs \in 1..MaxBatch}

\* Arguments of every type and sign the constructor may be handed.
CtorArgs ==
    {Args(rot, wsr, hsr, PyFloat(0), zoom, hflip, vflip, 1) :
        rot \in {PyInt(0 - 1), PyInt(0), PyInt(1), PyFloat(1)},
        wsr \in {PyFloat(0 - 1), PyFloat(0), PyFloat(1), PyFloat(2), PyInt(1)},
        hsr \in {PyFloat(0 - 1), PyFloat(0), PyFloat(1), PyFloat(2), PyInt(1)},
        zoom \in {PyFloat(0 - 1), PyFloat(0), PyFloat(1), PyInt(1)},
        hflip \in Flags \cup {PyInt(1)},
        vflip \in Flags \cup {PyInt(1)}}

\* paths2labels: the keys 1..n in any iteration order
Perms(n) == {f \in [1..n -> 1..n] : \A i, j \in 1..n : i # j => f[i] # f[j]}
Mappings == UNION {Perms(n) : n \in 1..MaxPaths}

\* Sample directories: path p holds frame0 .. frame(FramesOf(p) - 1); in a
\* broken world the directory of path 1 has MaxFrames entries of which one
\* frame file is replaced by a file of another name.
FramesOf(p) == ((p - 1) % MaxFrames) + 1
CompleteDir(p) == 0..(FramesOf(p) - 1)
BrokenDir(k) == ((0..(MaxFrames - 1)) \ {k}) \cup {JunkEntry}
CompleteWorld == [p \in Paths |-> CompleteDir(p)]
Worlds ==
    {CompleteWorld}
    \cup {[p \in Paths |-> IF p = 1 THEN BrokenDir(k) ELSE CompleteDir(p)] :
             k \in 0..(MaxFrames - 1)}

NoGen == [kind |-> "none", status |-> "suspended", current |-> 0,
          coin |-> "unbound", yields |-> 0]

\* What a pull gave its caller: a batch (X, y), the n-th the generator
\* yielded, or an exception, raised while working on sample path `at`
\* (0: not inside a sample).
NoResult == [status |-> "none", X |-> <<>>, y |-> <<>>, err |-> "none", n |-> 0, at |-> 0]
Raised(e, p) == [status |-> "raised", X |-> <<>>, y |-> <<>>, err |-> e, n |-> 0, at |-> p]
Batch(X, y, n) == [status |-> "batch", X |-> X, y |-> y, err |-> "none", n |-> n, at |-> 0]

GeneratorExecuting == "ValueError: generator already executing"
SampleTooLarge == "ValueError: Sample larger than population"

\* the second generator instance: not created, ths2 its consumers
SecondInit(ths2) ==
    /\ gen2 = NoGen
    /\ lock2 = 0
    /\ threads2 = ths2
    /\ pc2 = [t \in AllThreads |-> "idle"]
    /\ res2 = [t \in AllThreads |-> NoResult]
    /\ pulls2 = 0

InitWith(argset, worlds, mappings, ths) ==
    /\ SecondInit({})
    /\ args \in argset
    /\ proc = "none"
    /\ fs \in worlds
    /\ mapping \in mappings
    /\ gen = NoGen
    /\ lock = 0
    /\ threads = ths
    /\ pc = [t \in AllThreads |-> "idle"]
    /\ res = [t \in AllThreads |-> NoResult]
    /\ pulls = 0
    /\ delivered = <<>>
    /\ trail = <<>>
    /\ axes = <<>>

\* one consumer, every world and mapping
Init == InitWith(GenArgs, Worlds, Mappings, {1})

\* one consumer, every augmentation configuration, all sample directories
\* complete
InitAug == InitWith(AugArgs, {CompleteWorld}, {[i \in 1..MaxPaths |-> i]}, {1})

\* several consumers pulling from the one generator instance
InitThreads == InitWith(ThreadArgs, Worlds, Mappings, AllThreads)

\* construction with arbitrary arguments
InitCtor == InitWith(CtorArgs, {CompleteWorld}, {[i \in 1..MaxPaths |-> i]}, {1})

\* --------------------------------------------------------------- actions
\* FrameProcessor.__init__
Construct ==
    /\ proc = "none"
    /\ proc' = IF ArgsAccepted(args) THEN "ok" ELSE "AssertionError"
    /\ UNCHANGED <<args, fs, mapping, gen, lock, threads, pc, res, pulls, delivered, flipVars, secondVars>>

\* threadsafe_generator: gen(*a, **kw) wraps the new generator object; the
\* generator's body does not run before the first next().
CreateGenerator(kind) ==
    /\ proc = "ok"
    /\ gen.kind = "none"
    /\ gen' = [NoGen EXCEPT !.kind = kind]
    /\ UNCHANGED <<args, proc, fs, mapping, lock, threads, pc, res, pulls, delivered, flipVars, secondVars>>

\* no mutual exclusion: the block is entered whatever the lock's state
CanAcquireAlways(l) == TRUE

\* with self.lock: entered only when the lock is free
CanAcquire(l) == l = 0

\* a thread calls next() on the wrapper; the caller holds no result while the
\* call is in progress
Acquire(t) ==
    /\ gen.kind # "none"
    /\ pc[t] = "idle"
    /\ pulls < MaxPulls
    /\ CanAcquire(lock)
    /\ lock' = t
    /\ pc' = [pc EXCEPT ![t] = "locked"]
    /\ pulls' = pulls + 1
    /\ res' = [res EXCEPT ![t] = NoResult]
    /\ UNCHANGED <<args, proc, fs, mapping, gen, threads, delivered, flipVars, secondVars>>

\* next(self.iterator): a finished generator raises StopIteration, a running
\* one ValueError (generator already executing); otherwise the body resumes.
Resume(t) ==
    /\ pc[t] = "locked"
    /\ \/ /\ gen.status = "finished"
          /\ res' = [res EXCEPT ![t] = Raised("StopIteration", 0)]
          /\ pc' = [pc EXCEPT ![t] = "unlocking"]
          /\ gen' = gen
       \/ /\ gen.status = "running"
          /\ res' = [res EXCEPT ![t] = Raised(GeneratorExecuting, 0)]
          /\ pc' = [pc EXCEPT ![t] = "unlocking"]
          /\ gen' = gen
       \/ /\ gen.status = "suspended"
          /\ gen' = [gen EXCEPT !.status = "running"]
          /\ pc' = [pc EXCEPT ![t] = "producing"]
          /\ res' = res
    /\ UNCHANGED <<args, proc, fs, mapping, lock, threads, pulls, delivered, flipVars, secondVars>>

\* frame_generator: one turn of `while 1` up to the yield
ProduceFrame(t) ==
    /\ pc[t] = "producing"
    /\ gen.kind = "frame"
    /\ IF args.batch_size > Len(mapping)
       THEN /\ res' = [res EXCEPT ![t] = Raised(SampleTooLarge, 0)]
            /\ gen' = [gen EXCEPT !.status = "finished"]
       ELSE \E selected_paths \in RandomSamples(mapping, args.batch_size) :
            \E rnd \in [1..DrawsOf(args, fs, selected_paths, gen.coin) -> Bits] :
            LET y == [i \in 1..Len(selected_paths) |-> LabelOf(selected_paths[i])]
                out == AugmentBatch(args, fs, selected_paths, rnd, 1,
                           [X |-> <<>>, pos |-> 1, coin |-> gen.coin, err |-> "none", at |-> 0])
            IN  IF out.err = "none"
                THEN /\ res' = [res EXCEPT ![t] = Batch(out.X, y, gen.yields + 1)]
                     /\ gen' = [gen EXCEPT !.status = "suspended",
                                           !.coin = out.coin,
                                           !.yields = @ + 1]
                ELSE /\ res' = [res EXCEPT ![t] = Raised(out.err, out.at)]
                     /\ gen' = [gen EXCEPT !.status = "finished", !.coin = out.coin]
    /\ pc' = [pc EXCEPT ![t] = "unlocking"]
    /\ UNCHANGED <<args, proc, fs, mapping, lock, threads, pulls, delivered, flipVars, secondVars>>

\* the cursor never advances
NextCurrentStuck(current, n) == current

\* current += 1; if current == len(sequence_paths): current = 0
NextCurrent(current, n) == IF current + 1 = n THEN 0 ELSE current + 1

\* testing_generator: one turn of `while 1` up to the yield
ProduceTesting(t) ==
    /\ pc[t] = "producing"
    /\ gen.kind = "testing"
    /\ LET selected_path == mapping[gen.current + 1]
           y == LabelOf(selected_path)
           frames == get_sample_frames(fs[selected_path])
           sequence == build_image_sequence(frames)
       IN  IF MissingFrames(fs[selected_path], frames) # {}
           THEN /\ res' = [res EXCEPT ![t] = Raised("IOError", selected_path)]
                /\ gen' = [gen EXCEPT !.status = "finished"]
           ELSE /\ res' = [res EXCEPT ![t] =
                              Batch(<<[path |-> selected_path, frames |-> sequence,
                                       log |-> <<>>]>>, y, gen.yields + 1)]
                /\ gen' = [gen EXCEPT !.status = "suspended",
                                      !.current = NextCurrent(gen.current, Len(mapping)),
                                      !.yields = @ + 1]
    /\ pc' = [pc EXCEPT ![t] = "unlocking"]
    /\ UNCHANGED <<args, proc, fs, mapping, lock, threads, pulls, delivered, flipVars, secondVars>>

\* the lock stays with thread t when its pull raised
LockOnExitKeptOnRaise(t, r) == IF r.status = "raised" THEN t ELSE 0

\* the lock after thread t left `with self.lock` with outcome r: free
LockOnExit(t, r) == 0

\* leaving `with self.lock`: the lock is released on return and on exception,
\* and the caller receives the batch or the exception
Release(t) ==
    /\ pc[t] = "unlocking"
    /\ lock' = LockOnExit(t, res[t])
    /\ pc' = [pc EXCEPT ![t] = "idle"]
    /\ delivered' = IF res[t].status = "batch"
                    THEN Append(delivered, <<t, res[t].n>>)
                    ELSE delivered
    /\ UNCHANGED <<args, proc, fs, mapping, gen, threads, res, pulls, flipVars, secondVars>>

\* sequence_flip_axis(seq, axis) applied to the current pixel sequence
Flip(axis) ==
    /\ Len(trail) >= 1
    /\ Len(axes) < MaxFlips
    /\ trail' = Append(trail, flip_pixels(trail[Len(trail)], axis))
    /\ axes' = Append(axes, axis)
    /\ UNCHANGED <<genVars, secondVars>>

Next ==
    \/ Construct
    \/ \E kind \in {"frame", "testing"} : CreateGenerator(kind)
    \/ \E t \in threads : Acquire(t)
    \/ \E t \in threads : Resume(t)
    \/ \E t \in threads : ProduceFrame(t)
    \/ \E t \in threads : ProduceTesting(t)
    \/ \E t \in threads : Release(t)

Spec == Init /\ [][Next]_vars

SpecAug == InitAug /\ [][Next]_vars

SpecThreads == InitThreads /\ [][Next]_vars

\* construction and the creation of generators only
NextCtor ==
    \/ Construct
    \/ \E kind \in {"frame", "testing"} : CreateGenerator(kind)

SpecCtor == InitCtor /\ [][NextCtor]_vars

\* sequence_flip_axis alone, on sequences of frames of every small shape
InitFlip ==
    /\ args = Args(PyInt(0), PyFloat(0), PyFloat(0), PyFloat(0), PyFloat(0),
                   PyBool(FALSE), PyBool(FALSE), 1)
    /\ proc = "none"
    /\ fs = CompleteWorld
    /\ mapping = [i \in 1..MaxPaths |-> i]
    /\ gen = NoGen
    /\ lock = 0
    /\ threads = {1}
    /\ pc = [t \in AllThreads |-> "idle"]
    /\ res = [t \in AllThreads |-> NoResult]
    /\ pulls = 0
    /\ delivered = <<>>
    /\ axes = <<>>
    /\ SecondInit({})
    /\ \E h \in 1..MaxDim, w \in 1..MaxDim, c \in 1..MaxDim, n \in 1..MaxSeqLen :
          trail = <<[k \in 1..n |-> CodedFrame(<<h, w, c>>, k)]>>

NextFlip == \E axis \in 0..2 : Flip(axis)

SpecFlip == InitFlip /\ [][NextFlip]_vars

\* ------------------------------------------ a second generator instance
\* The same processor asked for another frame_generator (say a validation
\* generator next to the training one): a new generator object in a new
\* threadsafe_iterator with a lock of its own.
CreateGenerator2 ==
    /\ proc = "ok"
    /\ gen2.kind = "none"
    /\ gen2' = [NoGen EXCEPT !.kind = "frame"]
    /\ UNCHANGED <<genVars, flipVars, lock2, threads2, pc2, res2, pulls2>>

Acquire2(t) ==
    /\ gen2.kind # "none"
    /\ pc2[t] = "idle"
    /\ pulls2 < MaxPulls
    /\ CanAcquire(lock2)
    /\ lock2' = t
    /\ pc2' = [pc2 EXCEPT ![t] = "locked"]
    /\ pulls2' = pulls2 + 1
    /\ res2' = [res2 EXCEPT ![t] = NoResult]
    /\ UNCHANGED <<genVars, flipVars, gen2, threads2>>

Resume2(t) ==
    /\ pc2[t] = "locked"
    /\ \/ /\ gen2.status = "finished"
          /\ res2' = [res2 EXCEPT ![t] = Raised("StopIteration", 0)]
          /\ pc2' = [pc2 EXCEPT ![t] = "unlocking"]
          /\ gen2' = gen2
       \/ /\ gen2.status = "running"
          /\ res2' = [res2 EXCEPT ![t] = Raised(GeneratorExecuting, 0)]
          /\ pc2' = [pc2 EXCEPT ![t] = "unlocking"]
          /\ gen2' = gen2
       \/ /\ gen2.status = "suspended"
          /\ gen2' = [gen2 EXCEPT !.status = "running"]
          /\ pc2' = [pc2 EXCEPT ![t] = "producing"]
          /\ res2' = res2
    /\ UNCHANGED <<genVars, flipVars, lock2, threads2, pulls2>>

ProduceFrame2(t) ==
    /\ pc2[t] = "producing"
    /\ IF args.batch_size > Len(mapping)
       THEN /\ res2' = [res2 EXCEPT ![t] = Raised(SampleTooLarge, 0)]
            /\ gen2' = [gen2 EXCEPT !.status = "finished"]
       ELSE \E selected_paths \in RandomSamples(mapping, args.batch_size) :
            \E rnd \in [1..DrawsOf(args, fs, selected_paths, gen2.coin) -> Bits] :
            LET y == [i \in 1..Len(selected_paths) |-> LabelOf(selected_paths[i])]
                out == AugmentBatch(args, fs, selected_paths, rnd, 1,
                           [X |-> <<>>, pos |-> 1, coin |-> gen2.coin, err |-> "none",
                            at |-> 0])
            IN  IF out.err = "none"
                THEN /\ res2' = [res2 EXCEPT ![t] = Batch(out.X, y, gen2.yields + 1)]
                     /\ gen2' = [gen2 EXCEPT !.status = "suspended",
                                             !.coin = out.coin,
                                             !.yields = @ + 1]
                ELSE /\ res2' = [res2 EXCEPT ![t] = Raised(out.err, out.at)]
                     /\ gen2' = [gen2 EXCEPT !.status = "finished", !.coin = out.coin]
    /\ pc2' = [pc2 EXCEPT ![t] = "unlocking"]
    /\ UNCHANGED <<genVars, flipVars, lock2, threads2, pulls2>>

Release2(t) ==
    /\ pc2[t] = "unlocking"
    /\ lock2' = LockOnExit(t, res2[t])
    /\ pc2' = [pc2 EXCEPT ![t] = "idle"]
    /\ UNCHANGED <<genVars, flipVars, gen2, threads2, res2, pulls2>>

\* consumers of two generator instances of one processor, no augmentation
InitTwo ==
    /\ args \in {a \in ThreadArgs : a.batch_size = 1}
    /\ proc = "none"
    /\ fs = CompleteWorld
    /\ mapping = [i \in 1..MaxPaths |-> i]
    /\ gen = NoGen
    /\ lock = 0
    /\ threads = AllThreads
    /\ pc = [t \in AllThreads |-> "idle"]
    /\ res = [t \in AllThreads |-> NoResult]
    /\ pulls = 0
    /\ delivered = <<>>
    /\ trail = <<>>
    /\ axes = <<>>
    /\ SecondInit({1})

NextTwo ==
    \/ Next
    \/ CreateGenerator2
    \/ \E t \in threads2 : Acquire2(t)
    \/ \E t \in threads2 : Resume2(t)
    \/ \E t \in threads2 : ProduceFrame2(t)
    \/ \E t \in threads2 : Release2(t)

SpecTwo == InitTwo /\ [][NextTwo]_vars

\* ================================================================ claims
Range(f) == {f[i] : i \in DOMAIN f}

\* the pull of thread t has run the generator and not yet left the wrapper
PullEnded(t) == pc[t] = "unlocking"

\* no index-named frame file of the directory is missing
DirComplete(dir) == MissingFrames(dir, get_sample_frames(dir)) = {}

\* the batch size fits the mapping and every sample directory is complete
InputsSound ==
    /\ args.batch_size <= Len(mapping)
    /\ \A i \in 1..Len(mapping) : DirComplete(fs[mapping[i]])

\* C1: every pull of frame_generator, for every processor the constructor
\* accepted, yields a batch of exactly batch_size sequences and batch_size
\* labels, label i being the mapping's label of the path sequence i was
\* assembled from.  Stated for the pulls no input can be blamed for: the
\* batch size fits the mapping and every sample directory is complete.
C1_EveryPullYieldsAlignedBatch ==
    \A t \in threads :
        (gen.kind = "frame" /\ PullEnded(t) /\ InputsSound) =>
            /\ res[t].status = "batch"
            /\ Len(res[t].X) = args.batch_size
            /\ Len(res[t].y) = args.batch_size
            /\ \A i \in 1..Len(res[t].X) : res[t].y[i] = LabelOf(res[t].X[i].path)

\* C2: the paths of a batch yielded by frame_generator are pairwise distinct
\* keys of the mapping, and when batch_size equals the number of keys the
\* batch holds every key exactly once.
C2_SampledPathsDistinct ==
    \A t \in threads :
        (gen.kind = "frame" /\ res[t].status = "batch") =>
            LET X == res[t].X
            IN  /\ Len(X) = args.batch_size
                /\ \A i, j \in 1..Len(X) : i # j => X[i].path # X[j].path
                /\ \A i \in 1..Len(X) : X[i].path \in Range(mapping)
                /\ args.batch_size = Len(mapping) =>
                       {X[i].path : i \in 1..Len(X)} = Range(mapping)

\* a batch of two or more samples that takes the whole mapping
C2_Witness ==
    \E t \in threads :
        /\ gen.kind = "frame" /\ res[t].status = "batch"
        /\ args.batch_size = Len(mapping) /\ args.batch_size >= 2

\* C3: the k-th pull of testing_generator returns exactly one sample, that of
\* the key at position (k-1) mod n of the mapping's iteration order, with
\* that key's label, its frames untransformed and no random number drawn.
C3_TestingRoundRobin ==
    \A t \in threads :
        (gen.kind = "testing" /\ res[t].status = "batch") =>
            LET key == mapping[((pulls - 1) % Len(mapping)) + 1]
                X == res[t].X
            IN  /\ Len(X) = 1
                /\ X[1].path = key
                /\ res[t].y = LabelOf(key)
                /\ X[1].log = <<>>
                /\ Len(X[1].frames) = Cardinality(fs[key])
                /\ \A i \in 1..Len(X[1].frames) :
                       X[1].frames[i] = [idx |-> i - 1, hist |-> <<>>]

\* the pull after the last key of a mapping of two or more keys returned the
\* first key again
C3_Witness ==
    \E t \in threads :
        /\ gen.kind = "testing" /\ res[t].status = "batch"
        /\ Len(mapping) >= 2 /\ pulls = Len(mapping) + 1
        /\ res[t].X[1].path = mapping[1]

\* the threads inside `with self.lock`
InWrapper(t) == pc[t] \in {"locked", "producing", "unlocking"}

\* a batch is complete: the number of samples a pull of this generator
\* serves, each with all the frames of its directory
CompleteBatch(r) ==
    /\ Len(r.X) = IF gen.kind = "frame" THEN args.batch_size ELSE 1
    /\ \A i \in 1..Len(r.X) : Len(r.X[i].frames) = Cardinality(fs[r.X[i].path])

\* C4: with several threads pulling from one generator instance, at most one
\* thread at a time is inside the produce-next-batch step and it holds the
\* lock; every pull that returns a batch returns a complete one; the batches
\* of the underlying sequence are delivered one by one, none twice and none
\* skipped; no pull fails because the generator is already executing.
C4_PullsSerialized ==
    /\ \A t, u \in threads : (t # u /\ InWrapper(t)) => ~InWrapper(u)
    /\ \A t \in threads : InWrapper(t) => lock = t
    /\ gen.status = "running" => \E t \in threads : pc[t] = "producing"
    /\ \A t \in threads : res[t].err # GeneratorExecuting
    /\ \A t \in threads : res[t].status = "batch" => CompleteBatch(res[t])
    /\ \A i \in 1..Len(delivered) : delivered[i][2] = i
    /\ gen.yields \in {Len(delivered), Len(delivered) + 1}
    /\ gen.yields = Len(delivered) + 1 =>
           \E t \in threads : PullEnded(t) /\ res[t].n = gen.yields

\* two threads have each received a batch and a third pull is producing
C4_Witness ==
    /\ Len(delivered) >= 2
    /\ delivered[1][1] # delivered[2][1]
    /\ \E t \in threads : pc[t] = "producing"

\* what the documented validation rejects
BadArgs(a) ==
    \/ a.rotation_range.t # "int" \/ a.rotation_range.v < 0
    \/ a.width_shift_range.v < 0 \/ a.width_shift_range.v > 1
    \/ a.height_shift_range.v < 0 \/ a.height_shift_range.v > 1
    \/ a.zoom_range.v < 0
    \/ a.horizontal_flip.t # "bool" \/ a.vertical_flip.t # "bool"

\* C5: construction fails, and no generator is ever created, whenever
\* rotation_range is negative or not an integer, a shift range is outside
\* [0,1], zoom_range is negative or a flip flag is not a boolean.
C5_BadArgsRejected ==
    (BadArgs(args) /\ proc # "none") =>
        (proc = "AssertionError" /\ gen.kind = "none")

\* the transform a history entry stands for
KindOf(e) ==
    IF e.m.kind = "flip"
    THEN (IF e.m.a = 1 THEN "vertical_flip" ELSE "horizontal_flip")
    ELSE e.m.kind

\* the coin drawn for a flip came up heads
Heads(log, kind) ==
    \E i \in 1..Len(log) : log[i].ev = "draw" /\ log[i].kind = kind /\ log[i].u = <<1>>

Opt(cond, kind) == IF cond THEN <<kind>> ELSE <<>>

\* the transforms the documented policy applies to a sample, in order
ExpectedKinds(a, log) ==
    Opt(a.rotation_range.v > 0, "rotation")
    \o Opt(a.width_shift_range.v > 0 \/ a.height_shift_range.v > 0, "shift")
    \o Opt(a.shear_range.v > 0, "shear")
    \o Opt(a.zoom_range.v > 0, "zoom")
    \o Opt(Truthy(a.vertical_flip) /\ Heads(log, "vertical_flip"), "vertical_flip")
    \o Opt(Truthy(a.horizontal_flip) /\ Heads(log, "horizontal_flip"), "horizontal_flip")

\* C6: every sample of a frame_generator batch went through rotation, shift,
\* shear, zoom, vertical flip, horizontal flip in this order, each if and only
\* if it is enabled (for a flip: enabled and its own coin came up heads).
C6_TransformOrder ==
    \A t \in threads :
        (gen.kind = "frame" /\ res[t].status = "batch") =>
            \A i \in 1..Len(res[t].X) :
                LET s == res[t].X[i]
                IN  \A f \in 1..Len(s.frames) :
                        [n \in 1..Len(s.frames[f].hist) |-> KindOf(s.frames[f].hist[n])]
                            = ExpectedKinds(args, s.log)

AffineKinds == {"rotation", "shift", "shear", "zoom"}

\* calls of the random source one invocation of the transform makes
DrawCalls(kind) == IF kind = "shift" THEN 2 ELSE 1

AffineEnabled(a, kind) ==
    IF kind = "rotation" THEN a.rotation_range.v > 0
    ELSE IF kind = "shift" THEN a.width_shift_range.v > 0 \/ a.height_shift_range.v > 0
    ELSE IF kind = "shear" THEN a.shear_range.v > 0
    ELSE a.zoom_range.v > 0

\* C7: an invocation of the rotation, shift, shear or zoom of a sequence
\* calls the random source a fixed number of times whatever the number of
\* frames, all of them before the first frame is transformed, and applies
\* one and the same matrix to every frame.
C7_OneDrawPerSequence ==
    \A t \in threads :
        (gen.kind = "frame" /\ res[t].status = "batch") =>
            \A i \in 1..Len(res[t].X) : \A kind \in AffineKinds :
                LET s == res[t].X[i]
                    draws == {n \in 1..Len(s.log) :
                                 s.log[n].ev = "draw" /\ s.log[n].kind = kind}
                    applies == {n \in 1..Len(s.log) :
                                   s.log[n].ev = "apply" /\ s.log[n].kind = kind}
                    used(f) == {e \in Range(s.frames[f].hist) : e.m.kind = kind}
                IN  AffineEnabled(args, kind) =>
                        /\ Cardinality(draws) = DrawCalls(kind)
                        /\ Cardinality(applies) = Len(s.frames)
                        /\ \A d \in draws, a \in applies : d < a
                        /\ \A f \in 1..Len(s.frames) : Cardinality(used(f)) = 1
                        /\ \A f, g \in 1..Len(s.frames) : used(f) = used(g)

\* a sample of two or more frames went through all four affine transforms
C7_Witness ==
    \E t \in threads :
        /\ gen.kind = "frame" /\ res[t].status = "batch"
        /\ \E i \in 1..Len(res[t].X) :
              /\ Len(res[t].X[i].frames) >= 2
              /\ \A kind \in AffineKinds :
                    \E e \in Range(res[t].X[i].frames[2].hist) : e.m.kind = kind

\* C8: with horizontal_flip enabled a pull succeeds whether or not
\* vertical_flip is enabled, and each sample is flipped horizontally exactly
\* when the coin drawn for its horizontal flip came up heads.
C8_HorizontalCoinIndependent ==
    \A t \in threads :
        (gen.kind = "frame" /\ PullEnded(t) /\ InputsSound
             /\ Truthy(args.horizontal_flip)) =>
            /\ res[t].status = "batch"
            /\ \A i \in 1..Len(res[t].X) :
                  LET s == res[t].X[i]
                  IN  \A f \in 1..Len(s.frames) :
                          (\E e \in Range(s.frames[f].hist) :
                               KindOf(e) = "horizontal_flip")
                              <=> Heads(s.log, "horizontal_flip")

\* the key the k-th pull of testing_generator works on
TestingKey == mapping[((pulls - 1) % Len(mapping)) + 1]

\* C9: a sample of a directory with n entries is assembled from the files
\* frame0 .. frame(n-1); a batch is never yielded with a shortened sequence
\* or a sample left out, and a pull that meets a directory with one of these
\* files missing ends in an I/O error raised to the pulling thread.
C9_MissingFrameFailsPull ==
    \A t \in threads :
        /\ res[t].status = "batch" =>
               /\ CompleteBatch(res[t])
               /\ \A i \in 1..Len(res[t].X) :
                      LET s == res[t].X[i]
                      IN  \A j \in 1..Len(s.frames) :
                              s.frames[j].idx = j - 1 /\ (j - 1) \in fs[s.path]
        /\ res[t].err = "IOError" =>
               (res[t].at # 0 /\ ~DirComplete(fs[res[t].at]))
        /\ (gen.kind = "testing" /\ PullEnded(t) /\ ~DirComplete(fs[TestingKey])) =>
               res[t].err \in {"IOError", "StopIteration"}
        /\ (gen.kind = "frame" /\ PullEnded(t) /\ args.batch_size = Len(mapping)
                /\ \E p \in Range(mapping) : ~DirComplete(fs[p])) =>
               res[t].status = "raised"

\* a pull of frame_generator ended in the I/O error of a broken directory
C9_Witness ==
    \E t \in threads :
        /\ gen.kind = "frame" /\ PullEnded(t)
        /\ res[t].err = "IOError" /\ ~DirComplete(fs[res[t].at])

\* C10: flipping a sequence twice on the same axis gives back the sequence,
\* frame by frame and element by element.
C10_DoubleFlipRestores ==
    \A k \in 1..(Len(axes) - 1) :
        axes[k] = axes[k + 1] => trail[k + 2] = trail[k]

\* a sequence of two or more frames was flipped twice on one axis, and the
\* first flip moved elements
C10_Witness ==
    \E k \in 1..(Len(axes) - 1) :
        /\ axes[k] = axes[k + 1]
        /\ Len(trail[k]) >= 2
        /\ trail[k + 1] # trail[k]

\* C13: in every shift frame_generator applies, the row translation tx lies
\* within height_shift_range * height and the column translation ty within
\* width_shift_range * width, for the processor's configured ranges.
C13_ShiftWithinConfiguredRanges ==
    \A t \in threads :
        (gen.kind = "frame" /\ res[t].status = "batch") =>
            \A i \in 1..Len(res[t].X) :
                \A f \in 1..Len(res[t].X[i].frames) :
                    \A e \in Range(res[t].X[i].frames[f].hist) :
                        e.m.kind = "shift" =>
                            LET tx == e.m.a
                                ty == e.m.b
                                hmax == args.height_shift_range.v * InputHeight
                                wmax == args.width_shift_range.v * InputWidth
                            IN  /\ 0 - hmax <= tx /\ tx <= hmax
                                /\ 0 - wmax <= ty /\ ty <= wmax

\* y is x with the order of its elements reversed along axis ax and kept
\* along the other two axes
ReversedAlong(x, y, ax) ==
    /\ y.shape = x.shape
    /\ \A idx \in IndexSet(x.shape) :
           y.at[idx] = x.at[[n \in 1..3 |-> IF n = ax + 1
                                            THEN x.shape[n] - 1 - idx[n]
                                            ELSE idx[n]]]

\* C12: on frames of shape (H, W, C) the vertical flip of frame_generator
\* reverses every frame along the row axis (0) and the horizontal flip along
\* the column axis (1), leaving the other axes, the channel axis included,
\* in their order.
C12_FlipAxes ==
    \A k \in 1..Len(axes) : \A i \in 1..Len(trail[k]) :
        /\ axes[k] = VerticalFlipAxis => ReversedAlong(trail[k][i], trail[k + 1][i], 0)
        /\ axes[k] = HorizontalFlipAxis => ReversedAlong(trail[k][i], trail[k + 1][i], 1)

\* C14: the lock is held only while a thread is inside a pull and is
\* released on every exit of the pull, a raising one included: whenever no
\* thread is inside a pull the lock is free, so a thread whose pull failed
\* does not keep the others out.
C14_LockFreeOutsidePulls ==
    /\ lock # 0 => (lock \in threads /\ InWrapper(lock))
    /\ (\A t \in threads : pc[t] = "idle") => lock = 0
    /\ \A t \in threads :
           (pc[t] = "idle" /\ res[t].status = "raised") => lock # t

\* one thread's pull failed with an I/O error, and afterwards another thread
\* got into the generator (which is finished)
C14_Witness ==
    \E t, u \in threads :
        /\ t # u
        /\ pc[t] = "idle" /\ res[t].err = "IOError"
        /\ PullEnded(u) /\ res[u].err = "StopIteration"


\* a thread is inside the body of frame_generator, where random.sample and
\* the np.random calls are made
Drawing(t) == gen.kind = "frame" /\ pc[t] = "producing"

Drawing2(t) == gen2.kind = "frame" /\ pc2[t] = "producing"

\* C11 as stated: no two threads are ever drawing from the random source at
\* the same time, also when they pull from two different generator
\* instances created in the same process.
C11_DrawsSerializedProcessWide ==
    Cardinality({t \in threads : Drawing(t)}) + Cardinality({t \in threads2 : Drawing2(t)}) <= 1

\* C11 amended: the draws made during batch production of ONE generator
\* instance are serialized by that instance's lock: no two threads pulling
\* from the same instance are drawing at the same time, and the thread that
\* is drawing holds the lock of the instance it pulls from.
C11_DrawsSerializedPerInstance ==
    /\ \A t, u \in threads : (Drawing(t) /\ Drawing(u)) => t = u
    /\ \A t \in threads : Drawing(t) => lock = t
    /\ \A t, u \in threads2 : (Drawing2(t) /\ Drawing2(u)) => t = u
    /\ \A t \in threads2 : Drawing2(t) => lock2 = t

\* a consumer of each instance is drawing at the same moment, each holding
\* its own instance's lock, while another consumer of the first instance
\* is outside the wrapper
C11_Witness ==
    \E t, u \in threads : \E v \in threads2 :
        /\ t # u
        /\ Drawing(t) /\ lock = t
        /\ pc[u] = "idle" /\ res[u].status = "batch"
        /\ Drawing2(v) /\ lock2 = v

====
